---- MODULE Spec2Model ----
(***************************************************************************)
(* Chile Metrics Collector (src/script.py): one run of main().             *)
(*                                                                         *)
(* Strings are sequences of one-character strings, so that str.strip,      *)
(* str.replace, slicing and float() are computed character by character.   *)
(* A float is [k, n]: k = "fin" with n the value in hundredths, or         *)
(* k = "nan" / "inf" for the non-finite values float() also returns.       *)
(* A JSON value is [t, s, v]: t is its type, s its characters when it is a *)
(* string, v its float when it is a number.                                *)
(***************************************************************************)
EXTENDS Integers, Sequences, FiniteSets, TLC

VARIABLES
    env,            \* os.environ: the three settings, "absent" when unset
    pc,             \* position of main()
    resp,           \* per source, the HTTP response requests.get produced
    data,           \* per source, what fetch_json returned
    i,              \* records of the current loop already iterated
    metrics,        \* the list built by collect_all_metrics
    ops,            \* network operations and push calls, in order
    log,            \* what was printed: errors and push reports
    exc,            \* the uncaught exception, with the function that raised it
    influx_result,  \* return value of push_metrics_influx
    simple_result,  \* return value of push_metrics_simple
    posted,         \* per protocol, the body handed to requests.post
    exit_status     \* the process exit status once main() has ended

vars == <<env, pc, resp, data, i, metrics, ops, log, exc, influx_result,
          simple_result, posted, exit_status>>

----------------------------------------------------------------------------
(* Bounds of the explored inputs *)

MaxRecords == 2     \* longest weather or currency response
MaxQuakes == 12     \* longest seismic response

(* Program constants *)

SeismicLimit == 10  \* quake_data[:10]
LocationMax == 40   \* RefGeografica[:40]

----------------------------------------------------------------------------
(* Python values *)

Fin(n) == [k |-> "fin", n |-> n]
NaN == [k |-> "nan", n |-> 0]
Inf == [k |-> "inf", n |-> 0]

JStr(s) == [t |-> "str", s |-> s, v |-> Fin(0)]
JNum(v) == [t |-> "num", s |-> <<>>, v |-> v]
JNull == [t |-> "null", s |-> <<>>, v |-> Fin(0)]
JList == [t |-> "list", s |-> <<>>, v |-> Fin(0)]
Absent == [t |-> "absent", s |-> <<>>, v |-> Fin(0)]

Min(a, b) == IF a < b THEN a ELSE b

\* s[:n]
Take(s, n) == SubSeq(s, 1, Min(n, Len(s)))

\* s.replace(c, r), c one character and r a string
RECURSIVE replace(_, _, _)
replace(s, c, r) ==
    IF s = <<>> THEN <<>>
    ELSE (IF Head(s) = c THEN r ELSE <<Head(s)>>) \o replace(Tail(s), c, r)

Whitespace == {" ", "\n"}

RECURSIVE lstrip(_)
lstrip(s) ==
    IF s # <<>> /\ Head(s) \in Whitespace THEN lstrip(Tail(s)) ELSE s

RECURSIVE rstrip(_)
rstrip(s) ==
    IF s # <<>> /\ s[Len(s)] \in Whitespace
    THEN rstrip(SubSeq(s, 1, Len(s) - 1)) ELSE s

\* s.strip()
strip(s) == rstrip(lstrip(s))

Digits == {"0", "1", "2", "3", "4", "5", "6", "7", "8", "9"}

DigitValue(c) ==
    CASE c = "0" -> 0 [] c = "1" -> 1 [] c = "2" -> 2 [] c = "3" -> 3
      [] c = "4" -> 4 [] c = "5" -> 5 [] c = "6" -> 6 [] c = "7" -> 7
      [] c = "8" -> 8 [] c = "9" -> 9

AllDigits(s) == \A j \in 1..Len(s) : s[j] \in Digits

RECURSIVE IntOf(_)
IntOf(s) ==
    IF s = <<>> THEN 0
    ELSE 10 * IntOf(SubSeq(s, 1, Len(s) - 1)) + DigitValue(s[Len(s)])

\* position of the first "." of s, 0 when there is none
DotAt(s) ==
    IF \E j \in 1..Len(s) : s[j] = "."
    THEN CHOOSE j \in 1..Len(s) : s[j] = "." /\ \A h \in 1..(j - 1) : s[h] # "."
    ELSE 0

\* the decimal literals float() accepts: digits, optionally one "." among them
IsDecimal(s) ==
    LET d == DotAt(s)
        whole == IF d = 0 THEN s ELSE SubSeq(s, 1, d - 1)
        frac == IF d = 0 THEN <<>> ELSE SubSeq(s, d + 1, Len(s))
    IN /\ AllDigits(whole)
       /\ AllDigits(frac)
       /\ Len(whole) + Len(frac) > 0

\* value of a decimal literal in hundredths (fractions are at most two digits here)
DecimalValue(s) ==
    LET d == DotAt(s)
        whole == IF d = 0 THEN s ELSE SubSeq(s, 1, d - 1)
        frac == IF d = 0 THEN <<>> ELSE SubSeq(s, d + 1, Len(s))
        f2 == Take(frac \o <<"0", "0">>, 2)
    IN 100 * IntOf(whole) + IntOf(f2)

Ok(v) == [ok |-> TRUE, v |-> v, err |-> "none"]
Err(e) == [ok |-> FALSE, v |-> Fin(0), err |-> e]

\* float(x) for a string: surrounding whitespace ignored, "nan" and "inf" accepted
float_str(s) ==
    LET u == strip(s)
    IN IF u = <<"n", "a", "n">> THEN Ok(NaN)
       ELSE IF u = <<"i", "n", "f">> THEN Ok(Inf)
       ELSE IF IsDecimal(u) THEN Ok(Fin(DecimalValue(u)))
       ELSE Err("ValueError")

\* float(x)
float(x) ==
    CASE x.t = "str" -> float_str(x.s)
      [] x.t = "num" -> Ok(x.v)
      [] OTHER -> Err("TypeError")

\* d.get(key, default) of a dict: a key that is present wins, null included
get(d, key, default) == IF d[key].t = "absent" THEN default ELSE d[key]

Unknown == JStr(<<"U", "n", "k", "n", "o", "w", "n">>)

----------------------------------------------------------------------------
(* collect_all_metrics: what one iteration of each loop does with its record. *)
(* A record is [t, o]: t = "obj" with o its fields, or t = "null" for an      *)
(* array element that is no object.  The result says whether the iteration   *)
(* appended ("ok"), was caught by the except clause ("skip"), hit continue    *)
(* ("drop") or raised past the loop ("raise").                                *)

Metric(name, value, labels) == [name |-> name, value |-> value, labels |-> labels]
Label(k, v) == [k |-> k, v |-> v]

Appended(ms) == [res |-> "ok", ms |-> ms, err |-> "none"]
Caught(e) == [res |-> "skip", ms |-> <<>>, err |-> e]
Dropped == [res |-> "drop", ms |-> <<>>, err |-> "none"]
Raised(e) == [res |-> "raise", ms |-> <<>>, err |-> e]

\* the body of the weather loop
weather_record(station) ==
    IF station.t # "obj" THEN Raised("AttributeError")
    ELSE
    LET station_name == get(station.o, "Estacion", Unknown)
        station_code == get(station.o, "Codigo", Unknown)
        temp == float(get(station.o, "Temp", JNum(Fin(0))))
        humidity == float(get(station.o, "Humedad", JNum(Fin(0))))
        labels == <<Label("station", station_name), Label("code", station_code)>>
    IN IF ~temp.ok THEN Caught(temp.err)
       ELSE IF ~humidity.ok THEN Caught(humidity.err)
       ELSE Appended(<<Metric("chile_temperature_celsius", temp.v, labels),
                       Metric("chile_humidity_percent", humidity.v, labels)>>)

\* str(i) of a loop index
IntToStr(n) ==
    LET d(j) == <<"0", "1", "2", "3", "4", "5", "6", "7", "8", "9">>[j + 1]
    IN IF n < 10 THEN <<d(n)>> ELSE <<d(n \div 10), d(n % 10)>>

\* the body of the earthquake loop, idx the position enumerate() gives
quake_record(idx, quake) ==
    IF quake.t # "obj" THEN Raised("AttributeError")
    ELSE
    LET ref == get(quake.o, "RefGeografica", Unknown)
        location == replace(replace(replace(Take(ref.s, LocationMax),
                                            "\"", <<>>), "'", <<>>), ",", <<>>)
        magnitude == float(get(quake.o, "Magnitud", JNum(Fin(0))))
        depth == float(get(quake.o, "Profundidad", JNum(Fin(0))))
        labels == <<Label("location", JStr(location)),
                    Label("index", JStr(IntToStr(idx)))>>
    IN IF ref.t \in {"null", "num"} THEN Caught("TypeError")
       ELSE IF ref.t # "str" THEN Raised("AttributeError")
       ELSE IF ~magnitude.ok THEN Caught(magnitude.err)
       ELSE IF ~depth.ok THEN Caught(depth.err)
       ELSE Appended(<<Metric("chile_earthquake_magnitude", magnitude.v, labels),
                       Metric("chile_earthquake_depth_km", depth.v, labels)>>)

important == << <<"U", "F">>, <<"U", "S", "D">>, <<"E", "U", "R">>,
                <<"U", "T", "M">>, <<"G", "B", "P">>, <<"C", "A", "D">>,
                <<"A", "U", "D">>, <<"B", "R", "L">>, <<"A", "R", "S">>,
                <<"M", "X", "N">> >>

\* x in a list
In(x, list) == \E j \in 1..Len(list) : list[j] = x

\* the currency loop without .strip() on Codigo
currency_record_nostrip(currency) ==
    IF currency.t # "obj" THEN Raised("AttributeError")
    ELSE
    LET raw_code == get(currency.o, "Codigo", JStr(<<>>))
        code == raw_code.s
        raw_name == get(currency.o, "Nombre", Unknown)
        name == strip(raw_name.s)
        raw_value == get(currency.o, "Valor", JStr(<<"0">>))
        value_str == replace(raw_value.s, ",", <<".">>)
        value == float(JStr(value_str))
    IN IF raw_code.t # "str" THEN Raised("AttributeError")
       ELSE IF ~In(code, important) THEN Dropped
       ELSE IF raw_name.t # "str" THEN Raised("AttributeError")
       ELSE IF raw_value.t # "str" THEN Raised("AttributeError")
       ELSE IF ~value.ok THEN Caught(value.err)
       ELSE Appended(<<Metric("chile_currency_clp", value.v,
                              <<Label("code", JStr(code)),
                                Label("name", JStr(name))>>)>>)

\* the body of the currency loop
currency_record(currency) ==
    IF currency.t # "obj" THEN Raised("AttributeError")
    ELSE
    LET raw_code == get(currency.o, "Codigo", JStr(<<>>))
        code == strip(raw_code.s)
        raw_name == get(currency.o, "Nombre", Unknown)
        name == strip(raw_name.s)
        raw_value == get(currency.o, "Valor", JStr(<<"0">>))
        value_str == replace(raw_value.s, ",", <<".">>)
        value == float(JStr(value_str))
    IN IF raw_code.t # "str" THEN Raised("AttributeError")
       ELSE IF ~In(code, important) THEN Dropped
       ELSE IF raw_name.t # "str" THEN Raised("AttributeError")
       ELSE IF raw_value.t # "str" THEN Raised("AttributeError")
       ELSE IF ~value.ok THEN Caught(value.err)
       ELSE Appended(<<Metric("chile_currency_clp", value.v,
                              <<Label("code", JStr(code)),
                                Label("name", JStr(name))>>)>>)

\* without the slice
quake_slice_all(quake_data) == quake_data

\* quake_data[:10]
quake_slice(quake_data) == Take(quake_data, SeismicLimit)

\* insert at the front for append
extend_front(list, ms) == ms \o list

\* metrics.append(...) for each metric an iteration built
extend(list, ms) == list \o ms

----------------------------------------------------------------------------
(* fetch_json *)

Sources == <<"clima", "sismos", "monedas">>
SourceSet == {"clima", "sismos", "monedas"}

ListBody(l) == [t |-> "list", l |-> l]
NullBody == [t |-> "null", l |-> <<>>]
Undecodable == [t |-> "undecodable", l |-> <<>>]

Response(status, body) == [status |-> status, body |-> body]

\* without raise_for_status: the body of an error answer is returned
fetch_json_unchecked(r) ==
    IF r.status = "transport_error" THEN ListBody(<<>>)
    ELSE IF r.body.t = "undecodable" THEN ListBody(<<>>)
    ELSE r.body

\* requests.get raises on a transport error, raise_for_status on an error
\* status, response.json on a body that is no JSON; each is caught and gives []
fetch_json(r) ==
    IF r.status = "transport_error" THEN ListBody(<<>>)
    ELSE IF r.status = "http_error" THEN ListBody(<<>>)
    ELSE IF r.body.t = "undecodable" THEN ListBody(<<>>)
    ELSE r.body

FetchFailed(r) ==
    r.status \in {"transport_error", "http_error"} \/ r.body.t = "undecodable"

----------------------------------------------------------------------------
(* The upstream responses explored *)

Chars(n, c) == [j \in 1..n |-> c]

WeatherDict(est, cod, temp, hum) ==
    [t |-> "obj", o |-> [Estacion |-> est, Codigo |-> cod, Temp |-> temp, Humedad |-> hum]]
QuakeDict(ref, mag, prof) ==
    [t |-> "obj", o |-> [RefGeografica |-> ref, Magnitud |-> mag, Profundidad |-> prof]]
CurrencyDict(cod, nom, val) ==
    [t |-> "obj", o |-> [Codigo |-> cod, Nombre |-> nom, Valor |-> val]]

NotADict(o) == [t |-> "null", o |-> o]

Santiago == JStr(<<"S", "a">>)
T215 == JStr(<<"2", "1", ".", "5">>)
H45 == JStr(<<"4", "5">>)

WeatherGood == WeatherDict(Santiago, JStr(<<"3", "3">>), T215, H45)

WeatherSpecial == {
    WeatherDict(JStr(<<"S", " ", "a", ",", "b">>), JStr(<<"3", "3">>), T215, H45),
    WeatherDict(JStr(<<"S", "=", "a", "\n", "b">>), JStr(<<"3", "3">>), T215, H45),
    WeatherDict(Santiago, JNum(Fin(3300)), JNum(Fin(2150)), JNum(Fin(4500))),
    WeatherDict(JNull, JStr(<<"3", "3">>), T215, H45),
    WeatherDict(Santiago, JStr(<<"3", "3">>), JStr(<<"a", "b">>), H45),
    WeatherDict(Santiago, JStr(<<"3", "3">>), JStr(<<"n", "a", "n">>), H45),
    WeatherDict(Santiago, JStr(<<"3", "3">>), T215, JNull),
    WeatherDict(Santiago, JStr(<<"3", "3">>), T215, JNum(Inf)),
    WeatherDict(Absent, Absent, Absent, Absent),
    NotADict(WeatherGood.o) }

M45 == JStr(<<"4", ".", "5">>)
P30 == JStr(<<"3", "0">>)

QuakeGood == QuakeDict(JStr(<<"a", "b">>), M45, P30)

QuakeSpecial == {
    QuakeDict(JStr(<<"a", " ", "\"", "b", "'", ",", "c">>), M45, P30),
    QuakeDict(JStr(Chars(LocationMax - 1, "a") \o <<",", "b", "\"">>), M45, P30),
    QuakeDict(JStr(<<"a", "=", "b">>), M45, P30),
    QuakeDict(JStr(<<"a", "b">>), JStr(<<"a", "b">>), P30),
    QuakeDict(JStr(<<"a", "b">>), M45, JStr(<<"i", "n", "f">>)),
    QuakeDict(JNull, M45, P30),
    QuakeDict(JList, M45, P30),
    QuakeDict(Absent, Absent, Absent),
    NotADict(QuakeGood.o) }

USD == JStr(<<"U", "S", "D">>)
Dolar == JStr(<<"D">>)
V95025 == JStr(<<"9", "5", "0", ",", "2", "5">>)

CurrencyGood == CurrencyDict(USD, Dolar, V95025)

CurrencySpecial == {
    CurrencyDict(JStr(<<" ", "U", "S", "D", " ">>), JStr(<<" ", "D", " ">>), V95025),
    CurrencyDict(JStr(<<"J", "P", "Y">>), JStr(<<"Y">>), JStr(<<"5", ",", "2">>)),
    CurrencyDict(JStr(<<"u", "s", "d">>), Dolar, V95025),
    CurrencyDict(JStr(<<"E", "U", "R">>), JStr(<<"E">>),
                 JStr(<<"1", ".", "2", "3", "4", ",", "5", "6">>)),
    CurrencyDict(JStr(<<"U", "F">>), JStr(<<"F">>), JNum(Fin(3900000))),
    CurrencyDict(JNum(Fin(100)), Dolar, V95025),
    CurrencyDict(JStr(<<"G", "B", "P">>), JNull, V95025),
    CurrencyDict(JStr(<<"C", "A", "D">>), JStr(<<"C">>), JStr(<<"n", "a", "n">>)),
    CurrencyDict(JStr(<<"M", "X", "N">>), JStr(<<"M">>), Absent),
    CurrencyDict(Absent, Absent, Absent),
    NotADict(CurrencyGood.o) }

Good(s) ==
    CASE s = "clima" -> WeatherGood
      [] s = "sismos" -> QuakeGood
      [] s = "monedas" -> CurrencyGood

Special(s) ==
    CASE s = "clima" -> WeatherSpecial
      [] s = "sismos" -> QuakeSpecial
      [] s = "monedas" -> CurrencySpecial

MaxLen(s) == IF s = "sismos" THEN MaxQuakes ELSE MaxRecords

\* where the one special record of a response may stand: anywhere in a short
\* response, first or last in a seismic one
Places(s, n) == IF s = "sismos" THEN {1, n} ELSE 1..n

\* the arrays a source may answer: good records with at most one special one
Arrays(s) ==
    UNION { { [j \in 1..n |-> IF j = p THEN r ELSE Good(s)] :
                p \in Places(s, n), r \in Special(s) \cup {Good(s)} } \cup {Chars(n, Good(s))} :
            n \in 0..MaxLen(s) }

\* every kind of answer: an array, JSON null, a body that is no JSON, an error
\* status (with a JSON or an HTML body), no answer at all
Answers(s) ==
    { Response("ok", ListBody(l)) : l \in Arrays(s) }
    \cup { Response("ok", NullBody), Response("ok", Undecodable),
           Response("http_error", ListBody(<<Good(s)>>)),
           Response("http_error", Undecodable),
           Response("transport_error", Undecodable) }

\* the answers still explored once an earlier source has given a special one
PlainAnswers(s) ==
    { Response("ok", ListBody(<<Good(s)>>)),
      Response("http_error", ListBody(<<Good(s)>>)),
      Response("ok", Undecodable),
      Response("transport_error", Undecodable) }

NoResponse == Response("none", Undecodable)

PostOutcomes == {"ok", "http_error", "transport_error"}

Unset == "<unset>"
EnvValues == {Unset, "", "x"}
Settings == {"PROMETHEUS_URL", "PROMETHEUS_USER", "PROMETHEUS_PASSWORD"}

----------------------------------------------------------------------------
(* Configuration *)

\* os.environ.get(name, "")
environ_get(name) == IF env[name] = Unset THEN "" ELSE env[name]

PROMETHEUS_URL == environ_get("PROMETHEUS_URL")
PROMETHEUS_USER == environ_get("PROMETHEUS_USER")
PROMETHEUS_PASSWORD == environ_get("PROMETHEUS_PASSWORD")

\* any() for all(): one setting is enough
ConfigComplete_Any ==
    PROMETHEUS_URL # "" \/ PROMETHEUS_USER # "" \/ PROMETHEUS_PASSWORD # ""

\* all([PROMETHEUS_URL, PROMETHEUS_USER, PROMETHEUS_PASSWORD])
ConfigComplete ==
    PROMETHEUS_URL # "" /\ PROMETHEUS_USER # "" /\ PROMETHEUS_PASSWORD # ""

----------------------------------------------------------------------------
(* Encoders *)

IsStr(x) == x.t = "str"

\* v.replace(" ", "_").replace(",", "")
influx_tag_value(v) == replace(replace(v, " ", <<"_">>), ",", <<>>)

\* one line of the field line format: name,k=v,... value=<value> <timestamp>
influx_line(metric) ==
    [name |-> metric.name,
     tags |-> [j \in 1..Len(metric.labels) |->
                  Label(metric.labels[j].k, influx_tag_value(metric.labels[j].v.s))],
     value |-> metric.value]

\* v.replace exists on strings only
influx_encodable(ms) ==
    \A j \in 1..Len(ms) : \A h \in 1..Len(ms[j].labels) : IsStr(ms[j].labels[h].v)

influx_body(ms) == [j \in 1..Len(ms) |-> influx_line(ms[j])]

\* one line of the tagged line format: name{k="v",...} value; an f-string
\* formats a value of any type, so the label values are kept as they are
simple_line(metric) ==
    [name |-> metric.name, labels |-> metric.labels, value |-> metric.value]

simple_body(ms) == [j \in 1..Len(ms) |-> simple_line(ms[j])]

\* bool(response) of requests: Response.__bool__ is Response.ok
response_truthy(outcome) == outcome = "ok"

----------------------------------------------------------------------------
(* main() *)

NoExc == [type |-> "none", in |-> "none"]

Init ==
    /\ env \in [Settings -> EnvValues]
    /\ pc = "start"
    /\ resp = [s \in SourceSet |-> NoResponse]
    /\ data = [s \in SourceSet |-> ListBody(<<>>)]
    /\ i = 0
    /\ metrics = <<>>
    /\ ops = <<>>
    /\ log = <<>>
    /\ exc = NoExc
    /\ influx_result = "none"
    /\ simple_result = "none"
    /\ posted = [influx |-> <<>>, simple |-> <<>>]
    /\ exit_status = -1

\* an exception nobody catches ends the process with a traceback and status 1
Uncaught(type, fn) ==
    /\ exc' = [type |-> type, in |-> fn]
    /\ pc' = "raised"
    /\ exit_status' = 1

\* lines 243-250: the banner, then the settings
CheckConfig ==
    /\ pc = "start"
    /\ IF ConfigComplete
       THEN /\ log' = Append(log, "Chile Metrics Collector")
            /\ pc' = "fetch_clima"
            /\ UNCHANGED exit_status
       ELSE /\ log' = log \o <<"Chile Metrics Collector", "Missing environment variables!">>
            /\ pc' = "exited"
            /\ exit_status' = 1
    /\ UNCHANGED <<env, resp, data, i, metrics, ops, exc, influx_result,
                   simple_result, posted>>

Fetched(s) == resp[s] # NoResponse

SpecialSoFar == \E s \in SourceSet : Fetched(s) /\ resp[s] \notin PlainAnswers(s)

\* fetch_json(url) as collect_all_metrics calls it
Fetch(s) ==
    /\ pc = "fetch_" \o s
    /\ \E r \in (IF SpecialSoFar THEN PlainAnswers(s) ELSE Answers(s)) :
         /\ resp' = [resp EXCEPT ![s] = r]
         /\ data' = [data EXCEPT ![s] = fetch_json(r)]
         /\ log' = IF FetchFailed(r) THEN Append(log, "Error fetching " \o s) ELSE log
    /\ ops' = Append(ops, "GET " \o s)
    /\ pc' = "loop_" \o s
    /\ i' = 0
    /\ UNCHANGED <<env, metrics, exc, influx_result, simple_result, posted, exit_status>>

FetchWeather == Fetch("clima")
FetchQuakes == Fetch("sismos")
FetchCurrencies == Fetch("monedas")

\* one iteration of a loop whose body gave `out`
Iterate(out, what) ==
    CASE out.res = "ok" ->
            /\ metrics' = extend(metrics, out.ms)
            /\ log' = Append(log, what)
            /\ i' = i + 1
            /\ UNCHANGED <<pc, exc, exit_status>>
      [] out.res = "skip" ->
            /\ log' = Append(log, "Error processing " \o what)
            /\ i' = i + 1
            /\ UNCHANGED <<pc, metrics, exc, exit_status>>
      [] out.res = "drop" ->
            /\ i' = i + 1
            /\ UNCHANGED <<pc, metrics, log, exc, exit_status>>
      [] out.res = "raise" ->
            /\ Uncaught(out.err, "collect_all_metrics")
            /\ UNCHANGED <<metrics, log, i>>

\* lines 167-188; a response that is no array cannot be iterated
LoopWeather ==
    /\ pc = "loop_clima"
    /\ IF data.clima.t # "list"
       THEN /\ Uncaught("TypeError", "collect_all_metrics")
            /\ UNCHANGED <<metrics, log, i>>
       ELSE IF i < Len(data.clima.l)
       THEN Iterate(weather_record(data.clima.l[i + 1]), "weather")
       ELSE /\ pc' = "fetch_sismos"
            /\ UNCHANGED <<metrics, log, i, exc, exit_status>>
    /\ UNCHANGED <<env, resp, data, ops, influx_result, simple_result, posted>>

\* lines 192-213
LoopQuakes ==
    /\ pc = "loop_sismos"
    /\ IF data.sismos.t # "list"
       THEN /\ Uncaught("TypeError", "collect_all_metrics")
            /\ UNCHANGED <<metrics, log, i>>
       ELSE IF i < Len(quake_slice(data.sismos.l))
       THEN Iterate(quake_record(i, quake_slice(data.sismos.l)[i + 1]), "earthquake")
       ELSE /\ pc' = "fetch_monedas"
            /\ UNCHANGED <<metrics, log, i, exc, exit_status>>
    /\ UNCHANGED <<env, resp, data, ops, influx_result, simple_result, posted>>

\* lines 219-239, and lines 254-255 of main once the list is returned
LoopCurrencies ==
    /\ pc = "loop_monedas"
    /\ IF data.monedas.t # "list"
       THEN /\ Uncaught("TypeError", "collect_all_metrics")
            /\ UNCHANGED <<metrics, log, i>>
       ELSE IF i < Len(data.monedas.l)
       THEN Iterate(currency_record(data.monedas.l[i + 1]), "currency")
       ELSE /\ pc' = "push_influx"
            /\ log' = Append(log, "Collected")
            /\ UNCHANGED <<metrics, i, exc, exit_status>>
    /\ UNCHANGED <<env, resp, data, ops, influx_result, simple_result, posted>>

\* lines 258-259 with push_metrics_influx
PushInflux ==
    /\ pc = "push_influx"
    /\ IF ~influx_encodable(metrics)
       THEN /\ Uncaught("AttributeError", "push_metrics_influx")
            /\ ops' = Append(ops, "call influx")
            /\ influx_result' = "raised"
            /\ UNCHANGED <<log, posted>>
       ELSE \E outcome \in PostOutcomes :
            /\ ops' = ops \o <<"call influx", "POST influx">>
            /\ posted' = [posted EXCEPT !.influx = influx_body(metrics)]
            /\ CASE outcome = "ok" ->
                      /\ log' = Append(log, "Pushed")
                      /\ influx_result' = "true"
                      /\ pc' = "done"
                      /\ exit_status' = 0
                 [] outcome = "http_error" ->
                      /\ log' = log \o <<"HTTP Error status">>
                                    \o (IF response_truthy(outcome)
                                        THEN <<"Response body">> ELSE <<>>)
                      /\ influx_result' = "false"
                      /\ pc' = "push_simple"
                      /\ UNCHANGED exit_status
                 [] outcome = "transport_error" ->
                      /\ log' = Append(log, "Error")
                      /\ influx_result' = "false"
                      /\ pc' = "push_simple"
                      /\ UNCHANGED exit_status
            /\ UNCHANGED exc
    /\ UNCHANGED <<env, resp, data, i, metrics, simple_result>>

\* lines 262-263 with push_metrics_simple; main returns whatever it gave
PushSimple ==
    /\ pc = "push_simple"
    /\ \E outcome \in PostOutcomes :
         /\ CASE outcome = "ok" ->
                   /\ log' = log \o <<"Trying alternative push method", "Pushed">>
                   /\ simple_result' = "true"
              [] outcome = "http_error" ->
                   /\ log' = log \o <<"Trying alternative push method",
                                      "HTTP Error status",
                                      IF response_truthy(outcome)
                                      THEN "Response body" ELSE "No response">>
                   /\ simple_result' = "false"
              [] outcome = "transport_error" ->
                   /\ log' = log \o <<"Trying alternative push method",
                                      "Error pushing metrics">>
                   /\ simple_result' = "false"
    /\ ops' = ops \o <<"call simple", "POST simple">>
    /\ posted' = [posted EXCEPT !.simple = simple_body(metrics)]
    /\ pc' = "done"
    /\ exit_status' = 0
    /\ UNCHANGED <<env, resp, data, i, metrics, exc, influx_result>>

Next ==
    \/ CheckConfig
    \/ FetchWeather
    \/ FetchQuakes
    \/ FetchCurrencies
    \/ LoopWeather
    \/ LoopQuakes
    \/ LoopCurrencies
    \/ PushInflux
    \/ PushSimple

Spec == Init /\ [][Next]_vars

----------------------------------------------------------------------------
(* Vocabulary of the properties *)

Names(s) ==
    CASE s = "clima" -> {"chile_temperature_celsius", "chile_humidity_percent"}
      [] s = "sismos" -> {"chile_earthquake_magnitude", "chile_earthquake_depth_km"}
      [] s = "monedas" -> {"chile_currency_clp"}

\* the metrics of the batch that a source contributed
MetricsFrom(s) == SelectSeq(metrics, LAMBDA m : m.name \in Names(s))

Count(seq, x) == Cardinality({j \in 1..Len(seq) : seq[j] = x})

Position(seq, x) == CHOOSE j \in 1..Len(seq) : seq[j] = x

Has(seq, x) == \E j \in 1..Len(seq) : seq[j] = x

Ended == pc \in {"done", "raised", "exited"}

\* collect_all_metrics has returned its list to main
Returned == pc \in {"push_influx", "push_simple", "done"} \/ exc.in = "push_metrics_influx"

\* position of a source in the run, and the source whose loop is running or ran last
Order(s) == CHOOSE j \in 1..3 : Sources[j] = s
Current == Sources[Cardinality({s \in SourceSet : Fetched(s)})]

\* the source of a source has been left behind by the run
Finished(s) == Returned \/ \E u \in SourceSet : Fetched(u) /\ Order(u) > Order(s)

----------------------------------------------------------------------------
\* C2: when one of the three settings is unset or empty, main() ends with a
\* non-zero exit status without having fetched or pushed anything: no network
\* operation ever occurs in such a run.
C2_MissingConfigAborts ==
    (\E n \in Settings : env[n] \in {Unset, ""}) =>
        /\ pc \in {"start", "exited"}
        /\ ops = <<>>
        /\ \A s \in SourceSet : ~Fetched(s)
        /\ pc = "exited" => exit_status > 0

C2_Witness ==
    /\ pc = "exited"
    /\ env["PROMETHEUS_URL"] = "x"
    /\ env["PROMETHEUS_USER"] = ""
    /\ env["PROMETHEUS_PASSWORD"] = Unset
    /\ exit_status = 1

----------------------------------------------------------------------------
\* C1 (as claimed): every run with complete configuration attempts the Influx
\* push first and exactly once, attempts the tagged push exactly when the
\* Influx push returned failure, never pushes more than twice and never after
\* a success.
C1_PushProtocol ==
    /\ Count(ops, "call influx") <= 1
    /\ Count(ops, "call simple") <= 1
    /\ Has(ops, "call simple") =>
          /\ Has(ops, "call influx")
          /\ Position(ops, "call influx") < Position(ops, "call simple")
          /\ influx_result = "false"
    /\ (ConfigComplete /\ Ended) =>
          /\ Count(ops, "call influx") = 1
          /\ Has(ops, "call simple") <=> influx_result = "false"

----------------------------------------------------------------------------
\* C3 (as claimed): collect_all_metrics never raises on a malformed record,
\* whatever is wrong with it; the record alone is skipped and the run goes on
\* to the records and sources after it.
C3_RecordIsolation ==
    /\ exc.in # "collect_all_metrics"
    /\ (ConfigComplete /\ Ended) => \A s \in SourceSet : Fetched(s)

----------------------------------------------------------------------------
\* C5 (as claimed): every Metric of the batch has a finite value; a field
\* that parses to NaN or infinity produces no Metric.
C5_FiniteValues ==
    \A j \in 1..Len(metrics) : metrics[j].value.k = "fin"

----------------------------------------------------------------------------
\* C8 (as claimed): both push functions return a boolean, true only on a 2xx
\* answer, and never raise, encoding of the batch included; an error status is
\* logged.
C8_PushNeverRaises ==
    /\ exc.in \notin {"push_metrics_influx", "push_metrics_simple"}
    /\ influx_result \in {"none", "true", "false"}
    /\ simple_result \in {"none", "true", "false"}
    /\ Has(ops, "call influx") => influx_result \in {"true", "false"}
    /\ Has(ops, "call simple") => simple_result \in {"true", "false"}

----------------------------------------------------------------------------
\* C9 (as claimed): the location label of a seismic Metric holds no quote and
\* no comma, and a label value written into the field line body holds no space
\* and no comma, so that it never introduces a delimiter of the field line
\* format (space, comma, equals sign, line break).
FieldLineDelimiters == {" ", ",", "=", "\n"}

C9_LabelSanitization ==
    /\ \A j \in 1..Len(metrics) :
          metrics[j].name \in Names("sismos") =>
             \A h \in 1..Len(metrics[j].labels[1].v.s) :
                metrics[j].labels[1].v.s[h] \notin {"\"", "'", ","}
    /\ \A j \in 1..Len(posted.influx) :
          \A h \in 1..Len(posted.influx[j].tags) :
             \A c \in 1..Len(posted.influx[j].tags[h].v) :
                posted.influx[j].tags[h].v[c] \notin FieldLineDelimiters

----------------------------------------------------------------------------
\* what a list of records yields when each is handled on its own, in order
RECURSIVE WeatherMetrics(_)
WeatherMetrics(l) ==
    IF l = <<>> THEN <<>>
    ELSE weather_record(Head(l)).ms \o WeatherMetrics(Tail(l))

RECURSIVE QuakeMetrics(_, _)
QuakeMetrics(l, idx) ==
    IF l = <<>> THEN <<>>
    ELSE quake_record(idx, Head(l)).ms \o QuakeMetrics(Tail(l), idx + 1)

RECURSIVE CurrencyMetrics(_)
CurrencyMetrics(l) ==
    IF l = <<>> THEN <<>>
    ELSE currency_record(Head(l)).ms \o CurrencyMetrics(Tail(l))

AllGood(s) == \A j \in 1..Len(data[s].l) : data[s].l[j] = Good(s)

\* C4: whatever the three fetches give (transport error, error status, body
\* that is no JSON, empty array, good array), fetch_json returns an empty list
\* for a failed fetch instead of raising, a failed or empty source adds no
\* Metric and never ends the run, and the batch holds exactly the Metrics of
\* the sources that answered with good data.
C4_FetchIsolation ==
    /\ exc.in # "fetch_json"
    /\ \A s \in SourceSet :
          (Fetched(s) /\ (FetchFailed(resp[s]) \/ resp[s].body = ListBody(<<>>))) =>
             /\ data[s] = ListBody(<<>>)
             /\ MetricsFrom(s) = <<>>
             /\ (pc = "raised" /\ exc.in = "collect_all_metrics") => Current # s
    /\ \A s \in SourceSet :
          (Fetched(s) /\ Finished(s) /\ ~FetchFailed(resp[s])
              /\ resp[s].body.t = "list" /\ AllGood(s)) =>
             Len(MetricsFrom(s)) =
                IF s = "monedas" THEN Len(data[s].l)
                ELSE IF s = "clima" THEN 2 * Len(data[s].l)
                ELSE 2 * Min(Len(data[s].l), SeismicLimit)
    /\ \A j \in 1..Len(metrics) :
          \E s \in SourceSet :
             /\ metrics[j].name \in Names(s)
             /\ Fetched(s) /\ ~FetchFailed(resp[s]) /\ resp[s].body.l # <<>>

C4_Witness ==
    /\ pc = "done"
    /\ resp.clima.status = "http_error" /\ resp.clima.body.l # <<>>
    /\ resp.sismos.status = "ok" /\ resp.sismos.body.t = "undecodable"
    /\ resp.monedas.status = "ok" /\ data.monedas.l = <<CurrencyGood>>
    /\ Len(metrics) = 1
    /\ metrics[1].name = "chile_currency_clp"

----------------------------------------------------------------------------
\* the ten codes of the allow-list, written out
AllowList ==
    { <<"U", "F">>, <<"U", "S", "D">>, <<"E", "U", "R">>, <<"U", "T", "M">>,
      <<"G", "B", "P">>, <<"C", "A", "D">>, <<"A", "U", "D">>, <<"B", "R", "L">>,
      <<"A", "R", "S">>, <<"M", "X", "N">> }

\* c is s without its leading and trailing whitespace
IsTrimOf(c, s) ==
    /\ \E a \in 0..Len(s) : \E b \in a..Len(s) :
          /\ c = SubSeq(s, a + 1, b)
          /\ \A j \in (1..a) \cup ((b + 1)..Len(s)) : s[j] \in Whitespace
    /\ c # <<>> => (c[1] \notin Whitespace /\ c[Len(c)] \notin Whitespace)

IsObj(r) == r.t = "obj"

\* the record's Codigo, exactly as received, is one of the ten codes
RawAllowed(r) ==
    IsObj(r) /\ r.o.Codigo.t = "str" /\ r.o.Codigo.s \in AllowList

\* the record's Codigo is a string that is one of the ten codes once trimmed
TrimAllowed(r) ==
    /\ IsObj(r)
    /\ r.o.Codigo.t = "str"
    /\ \E c \in AllowList : IsTrimOf(c, r.o.Codigo.s)

\* Valor, '0' when missing, is a string that float() accepts with "," as "."
ValorParses(r) ==
    \/ r.o.Valor.t = "absent"
    \/ /\ r.o.Valor.t = "str"
       /\ float_str(replace(r.o.Valor.s, ",", <<".">>)).ok

Eligible(r) ==
    /\ TrimAllowed(r)
    /\ r.o.Nombre.t \in {"str", "absent"}
    /\ ValorParses(r)

\* the currency records already iterated
CurrencySeen ==
    IF ~Fetched("monedas") \/ data.monedas.t # "list" THEN <<>>
    ELSE IF pc = "loop_monedas" THEN SubSeq(data.monedas.l, 1, i)
    ELSE IF pc = "raised" /\ exc.in = "collect_all_metrics" THEN SubSeq(data.monedas.l, 1, i)
    ELSE data.monedas.l

----------------------------------------------------------------------------
\* C7: only the first ten records of a seismic response are examined, the
\* batch holds at most ten magnitude/depth pairs, and what a response holds
\* at position ten or later leaves no trace in the batch.
C7_SeismicCap ==
    /\ pc = "loop_sismos" => i <= SeismicLimit
    /\ Len(MetricsFrom("sismos")) <= 2 * SeismicLimit
    /\ \A j \in 1..Len(metrics) :
          metrics[j].name \in Names("sismos") =>
             metrics[j].labels[2].v.s \in {IntToStr(n) : n \in 0..(SeismicLimit - 1)}
    /\ (Fetched("sismos") /\ Finished("sismos")) =>
          MetricsFrom("sismos") = QuakeMetrics(Take(data.sismos.l, SeismicLimit), 0)

C7_Witness ==
    /\ pc = "done"
    /\ Len(data.sismos.l) = SeismicLimit + 2
    /\ ~IsObj(data.sismos.l[SeismicLimit + 2])
    /\ Len(MetricsFrom("sismos")) = 2 * SeismicLimit

----------------------------------------------------------------------------
Rank(op) ==
    CASE op = "GET clima" -> 1 [] op = "GET sismos" -> 2 [] op = "GET monedas" -> 3
      [] op = "call influx" -> 4 [] op = "POST influx" -> 5
      [] op = "call simple" -> 6 [] op = "POST simple" -> 7

\* C10: a run fetches weather, then seismic, then currency data, then pushes
\* and maybe pushes again; no push starts before the three fetches are over,
\* and the batch handed to a pusher lists the weather Metrics, then the
\* seismic ones, then the currency ones, each group in upstream record order.
C10_RunOrder ==
    /\ \A a \in 1..Len(ops) : \A b \in 1..Len(ops) :
          a < b => Rank(ops[a]) < Rank(ops[b])
    /\ (\E a \in 1..Len(ops) : Rank(ops[a]) >= 4) =>
          /\ SubSeq(ops, 1, 3) = <<"GET clima", "GET sismos", "GET monedas">>
          /\ \A s \in SourceSet : Fetched(s)
    /\ Returned =>
          metrics = WeatherMetrics(data.clima.l)
                    \o QuakeMetrics(Take(data.sismos.l, SeismicLimit), 0)
                    \o CurrencyMetrics(data.monedas.l)
    /\ Has(ops, "POST influx") =>
          [j \in 1..Len(posted.influx) |-> posted.influx[j].name] =
             [j \in 1..Len(metrics) |-> metrics[j].name]
    /\ Has(ops, "POST simple") => posted.simple = metrics

C10_Witness ==
    /\ pc = "done"
    /\ simple_result = "true"
    /\ Len(data.clima.l) = 2 /\ data.clima.l[1] # data.clima.l[2]
    /\ Len(MetricsFrom("clima")) = 4
    /\ Len(MetricsFrom("sismos")) = 2
    /\ Len(MetricsFrom("monedas")) = 1

====
